---- MODULE Spec2Model ----
(***************************************************************************)
(* Model of the platform-event relay: server/index.js (Express + jsforce   *)
(* streaming client + Server-Sent Events fan-out).                         *)
(*                                                                         *)
(* Node runs every callback to completion on one thread, so each handler   *)
(* of the server is one atomic action: the credentials check at module     *)
(* load, the two continuations of `await conn.login`, the GET /events      *)
(* handler, the req "close" handler, the setInterval ping callback, the    *)
(* subscription callback (which calls broadcastEvent), the two callbacks   *)
(* of the subscription promise and the transport:failure handler.          *)
(* The environment (clients, sockets, the Salesforce upstream and the      *)
(* Faye client library) chooses when each of them runs.                    *)
(*                                                                         *)
(* The page, client/src/App.jsx, is modelled next to it: the EventSource   *)
(* line rules, JSON.parse, the platformEvent listener, onopen, onerror     *)
(* and the Clear button. Spec is the server, IdleSpec the server with one  *)
(* consumer and more ticks, ClientSpec the page reading frames off the     *)
(* wire.                                                                   *)
(***************************************************************************)
EXTENDS Integers, Sequences, FiniteSets, TLC

-----------------------------------------------------------------------------
(* Bounds of the model *)

MaxConsumers == 2   \* GET /events requests served
MaxEvents    == 2   \* messages delivered by the upstream subscription
MaxReplayId  == 2   \* replay ids the upstream log holds
MaxPings     == 1   \* keep-alive ticks, all consumers together
IdleTicks    == 4   \* keep-alive ticks of the single consumer of IdleSpec
MaxFrames    == 201 \* platformEvent frames the page parses between two Clears
MaxBadFrames == 1   \* unparsable frames the page gets between two Clears
QueueCapacity == 2  \* chunks a consumer may hold undrained, as the eviction policy states it

-----------------------------------------------------------------------------
(* Values *)

Undefined == "<undefined>"            \* a variable absent from process.env
EnvValues == {Undefined, "", "secret"}
CredNames == {"SF_USERNAME", "SF_PASSWORD", "SF_TOKEN"}

Res == 1..MaxConsumers                \* the response objects, in request order

\* index.js:84  const replayId = -1
replayId == -1

\* JS truthiness of an environment value, as `!SF_USERNAME` reads it.
Falsy(v) == v \in {Undefined, ""}

\* Mutant: the check stops the process only when all three are absent.
MissingCreds_All(e) ==
    Falsy(e["SF_USERNAME"]) /\ Falsy(e["SF_PASSWORD"]) /\ Falsy(e["SF_TOKEN"])

\* index.js:21  !SF_USERNAME || !SF_PASSWORD || !SF_TOKEN
MissingCreds(e) ==
    Falsy(e["SF_USERNAME"]) \/ Falsy(e["SF_PASSWORD"]) \/ Falsy(e["SF_TOKEN"])

-----------------------------------------------------------------------------
(* Upstream messages and their serialisation *)

\* Payload texts of the retained upstream events.
PayloadTexts == << "a", "b\n", "\"c" >>

\* The message the Faye client hands to the subscription callback for the
\* event at replay position r.
UpstreamEvent(r) ==
    [ schema  |-> "S",
      payload |-> PayloadTexts[((r - 1) % Len(PayloadTexts)) + 1],
      event   |-> [replayId |-> r] ]

\* JSON.stringify of one character inside a string literal.
JsonEscape(ch) ==
    CASE ch = "\"" -> "\\\""
      [] ch = "\\" -> "\\\\"
      [] ch = "\n" -> "\\n"
      [] OTHER     -> ch

RECURSIVE JsonChars(_)
JsonChars(cs) ==
    IF cs = "" THEN "" ELSE JsonEscape(Head(cs)) \o JsonChars(Tail(cs))

JsonString(cs) == "\"" \o JsonChars(cs) \o "\""

\* index.js:59  JSON.stringify(evt)
JSON_stringify(evt) ==
    "{\"schema\":" \o JsonString(evt.schema)
      \o ",\"payload\":" \o JsonString(evt.payload)
      \o ",\"event\":{\"replayId\":" \o ToString(evt.event.replayId) \o "}}"

\* The three chunks the server passes to res.write.
EventLine    == "event: platformEvent\n"
DataLine(d)  == "data: " \o d \o "\n\n"
PingFrame    == ":ping\n\n"

-----------------------------------------------------------------------------
(* State *)

VARIABLES
    env,            \* process.env: the three credentials
    pc,             \* "load", "login", "running", "exited"
    exitCode,       \* argument of process.exit, -1 while the process lives
    loginCalls,     \* calls of conn.login
    clients,        \* Faye clients created (conn.streaming.createClient)
    subscribeCalls, \* calls of fayeClient.subscribe
    subCursor,      \* replay id given to the Replay extension, 0 before
    subState,       \* the subscription promise: "none","pending","active","rejected"
    listening,      \* app.listen has been called
    sseClients,     \* the Set of registered responses
    requests,       \* GET /events requests served so far
    pingTimers,     \* responses whose setInterval timer is running
    pings,          \* keep-alive ticks fired so far
    closed,         \* responses whose req "close" handler has run
    destroyed,      \* responses whose socket is gone (writes to them fail)
    out,            \* per response: the chunks given to res.write, in order
    arrived,        \* history: messages delivered by the upstream, in order
    regAt,          \* history: sseClients at each call of broadcastEvent
    attachIdx,      \* history: Len(arrived) when the response was registered
    closeIdx,       \* history: Len(arrived) when its close handler ran, -1 before
    failedAt,       \* history: Len(arrived) when transport:failure last ran, -1 before
    connected,      \* App.jsx: the `connected` state of the page
    events,         \* App.jsx: the `events` state of the page, newest first
    received,       \* history: messages the page parsed since the last Clear, in order
    badFrames,      \* history: unparsable frames the page got since the last Clear
    recovered       \* history: an entry was added behind an unparsable frame

procVars     == <<env, pc, exitCode, loginCalls, listening>>
upstreamVars == <<clients, subscribeCalls, subCursor, subState>>
registryVars == <<sseClients, requests, pingTimers, closed, destroyed>>
streamVars   == <<out, pings>>
historyVars  == <<arrived, regAt, attachIdx, closeIdx, failedAt>>
serverVars   == <<procVars, upstreamVars, registryVars, streamVars, historyVars>>
clientVars   == <<connected, events, received, badFrames, recovered>>

vars == <<serverVars, clientVars>>

-----------------------------------------------------------------------------
(* res.write *)

\* The chunks given to res.write of response c after one more call.
Write(o, c, chunk) == [o EXCEPT ![c] = Append(@, chunk)]

\* res.write on a response whose socket is gone fails: the chunk is
\* dropped. The call does not throw and the server reads neither its
\* return value nor its error, so nothing else changes.
WriteFails(c) == c \in destroyed

\* Chunks held in memory for response c while its peer reads nothing:
\* res.write never waits and never refuses, every accepted chunk stays.
Buffered(c) == IF WriteFails(c) THEN 0 ELSE Len(out[c])

-----------------------------------------------------------------------------
(* Initial state: the module is loaded, process.env is read *)

Init ==
    /\ env \in [CredNames -> EnvValues]
    /\ pc = "load"
    /\ exitCode = -1
    /\ loginCalls = 0
    /\ clients = 0
    /\ subscribeCalls = 0
    /\ subCursor = 0
    /\ subState = "none"
    /\ listening = FALSE
    /\ sseClients = {}
    /\ requests = 0
    /\ pingTimers = {}
    /\ pings = 0
    /\ closed = {}
    /\ destroyed = {}
    /\ out = [c \in Res |-> << >>]
    /\ arrived = << >>
    /\ regAt = << >>
    /\ attachIdx = [c \in Res |-> -1]
    /\ closeIdx = [c \in Res |-> -1]
    /\ failedAt = -1
    /\ connected = FALSE
    /\ events = << >>
    /\ received = << >>
    /\ badFrames = 0
    /\ recovered = FALSE

-----------------------------------------------------------------------------
(* Startup: index.js:21-24, 67-115 *)

\* index.js:21-24: the credentials check fails, process.exit(1).
ExitMissingCreds ==
    /\ pc = "load"
    /\ MissingCreds(env)
    /\ pc' = "exited"
    /\ exitCode' = 1
    /\ UNCHANGED <<env, loginCalls, listening>>
    /\ UNCHANGED <<upstreamVars, registryVars, streamVars, historyVars>>
    /\ UNCHANGED clientVars

\* index.js:26-72, 115: the check passes; the app, the registry and the
\* connection are created, start() runs up to `await conn.login(...)`.
StartLogin ==
    /\ pc = "load"
    /\ ~MissingCreds(env)
    /\ pc' = "login"
    /\ loginCalls' = loginCalls + 1
    /\ UNCHANGED <<env, exitCode, listening>>
    /\ UNCHANGED <<upstreamVars, registryVars, streamVars, historyVars>>
    /\ UNCHANGED clientVars

\* index.js:73-107: login resolved; the rest of the try block runs in one
\* turn: create the client with the Replay extension, subscribe, register
\* the promise and transport:failure callbacks, app.listen.
LoginResolved ==
    /\ pc = "login"
    /\ pc' = "running"
    /\ clients' = clients + 1
    /\ subscribeCalls' = subscribeCalls + 1
    /\ subCursor' = replayId
    /\ subState' = "pending"
    /\ listening' = TRUE
    /\ UNCHANGED <<env, exitCode, loginCalls>>
    /\ UNCHANGED <<registryVars, streamVars, historyVars>>
    /\ UNCHANGED clientVars

\* index.js:109-112: login rejected (bad credentials, connection refused);
\* the catch block logs and calls process.exit(1).
LoginRejected ==
    /\ pc = "login"
    /\ pc' = "exited"
    /\ exitCode' = 1
    /\ UNCHANGED <<env, loginCalls, listening>>
    /\ UNCHANGED <<upstreamVars, registryVars, streamVars, historyVars>>
    /\ UNCHANGED clientVars

-----------------------------------------------------------------------------
(* Upstream callbacks: index.js:89-103 *)

\* index.js:94-95: the subscription promise resolves; logged only.
SubscribeResolved ==
    /\ pc = "running"
    /\ subState = "pending"
    /\ subState' = "active"
    /\ UNCHANGED <<clients, subscribeCalls, subCursor>>
    /\ UNCHANGED <<procVars, registryVars, streamVars, historyVars>>
    /\ UNCHANGED clientVars

\* Mutant: a rejected subscription ends the process like a failed login.
SubscribeRejected_Exits ==
    /\ pc = "running"
    /\ subState = "pending"
    /\ subState' = "rejected"
    /\ pc' = "exited"
    /\ exitCode' = 1
    /\ UNCHANGED <<env, loginCalls, listening>>
    /\ UNCHANGED <<clients, subscribeCalls, subCursor>>
    /\ UNCHANGED <<registryVars, streamVars, historyVars>>
    /\ UNCHANGED clientVars

\* index.js:96-98: the subscription promise rejects; logged only.
SubscribeRejected ==
    /\ pc = "running"
    /\ subState = "pending"
    /\ subState' = "rejected"
    /\ UNCHANGED <<clients, subscribeCalls, subCursor>>
    /\ UNCHANGED <<procVars, registryVars, streamVars, historyVars>>
    /\ UNCHANGED clientVars

\* Mutant: the handler subscribes again from the last event delivered.
TransportFailure_Resubscribes ==
    /\ pc = "running"
    /\ failedAt # Len(arrived)
    /\ failedAt' = Len(arrived)
    /\ subscribeCalls' = subscribeCalls + 1
    /\ subCursor' = IF arrived = << >> THEN replayId
                    ELSE arrived[Len(arrived)].event.replayId
    /\ UNCHANGED <<clients, subState>>
    /\ UNCHANGED <<arrived, regAt, attachIdx, closeIdx>>
    /\ UNCHANGED <<procVars, registryVars, streamVars>>
    /\ UNCHANGED clientVars

\* Mutant: the handler tells every consumer that the upstream is down.
TransportFailure_NotifiesConsumers ==
    /\ pc = "running"
    /\ failedAt # Len(arrived)
    /\ failedAt' = Len(arrived)
    /\ out' = [c \in Res |->
                 IF c \in sseClients
                 THEN out[c] \o <<"event: disconnected\n", "data: {}\n\n">>
                 ELSE out[c]]
    /\ UNCHANGED pings
    /\ UNCHANGED <<clients, subscribeCalls, subCursor, subState>>
    /\ UNCHANGED <<arrived, regAt, attachIdx, closeIdx>>
    /\ UNCHANGED <<procVars, registryVars>>
    /\ UNCHANGED clientVars

\* index.js:101-103: the transport:failure handler; logged only. The Faye
\* client re-establishes its transport by itself, no code of the server
\* runs for it (README: "The CometD client auto-reconnects"); a second
\* failure before any new delivery changes nothing and is left out.
TransportFailure ==
    /\ pc = "running"
    /\ failedAt # Len(arrived)
    /\ failedAt' = Len(arrived)
    /\ UNCHANGED <<clients, subscribeCalls, subCursor, subState>>
    /\ UNCHANGED <<arrived, regAt, attachIdx, closeIdx>>
    /\ UNCHANGED <<procVars, registryVars, streamVars>>
    /\ UNCHANGED clientVars

\* Replay positions the upstream may deliver next: the first event of the
\* log, then either the next new event or the last one again (the provider
\* redelivers at or before the cursor after a reconnect).
NextReplayIds ==
    IF arrived = << >> THEN {1}
    ELSE LET last == arrived[Len(arrived)].event.replayId
         IN  {r \in {last, last + 1} : r <= MaxReplayId}

\* Mutant: the frame is written twice to every registered response.
broadcastEvent_WritesTwice(evt) ==
    LET data == JSON_stringify(evt) IN
    out' = [c \in Res |->
              IF c \in sseClients
              THEN out[c] \o <<EventLine, DataLine(data), EventLine, DataLine(data)>>
              ELSE out[c]]

\* Mutant: the new frame is put ahead of what was written before.
broadcastEvent_Prepends(evt) ==
    LET data == JSON_stringify(evt) IN
    out' = [c \in Res |->
              IF c \in sseClients
              THEN <<EventLine, DataLine(data)>> \o out[c]
              ELSE out[c]]

\* Mutant: a response already holding QueueCapacity chunks is skipped.
broadcastEvent_DropsWhenFull(evt) ==
    LET data == JSON_stringify(evt) IN
    out' = [c \in Res |->
              IF c \in sseClients /\ Len(out[c]) < QueueCapacity
              THEN out[c] \o <<EventLine, DataLine(data)>>
              ELSE out[c]]

\* Mutant: the loop stops at the first response whose write fails.
broadcastEvent_StopsAtFailure(evt) ==
    LET data == JSON_stringify(evt) IN
    out' = [c \in Res |->
              IF c \in sseClients /\ ~\E f \in sseClients : f <= c /\ f \in destroyed
              THEN out[c] \o <<EventLine, DataLine(data)>>
              ELSE out[c]]

\* Mutant: the event line is written in this turn, the data line is left
\* to a later one.
broadcastEvent_EventLineOnly(evt) ==
    out' = [c \in Res |->
              IF c \in sseClients
              THEN out[c] \o <<EventLine>>
              ELSE out[c]]

\* index.js:58-64: broadcastEvent. Every registered response gets the
\* event line and the data line, one res.write each.
broadcastEvent(evt) ==
    LET data == JSON_stringify(evt) IN
    out' = [c \in Res |->
              IF c \in sseClients
              THEN out[c] \o <<EventLine, DataLine(data)>>
              ELSE out[c]]

\* Mutant: a message whose replay id was delivered last is dropped.
Deliver_DropsDuplicate(r) ==
    /\ pc = "running"
    /\ subState = "active"
    /\ Len(arrived) < MaxEvents
    /\ arrived' = Append(arrived, UpstreamEvent(r))
    /\ IF arrived # << >> /\ arrived[Len(arrived)].event.replayId = r
       THEN UNCHANGED <<out, regAt>>
       ELSE /\ broadcastEvent(UpstreamEvent(r))
            /\ regAt' = Append(regAt, sseClients)
    /\ UNCHANGED <<pings, attachIdx, closeIdx, failedAt>>
    /\ UNCHANGED <<procVars, upstreamVars, registryVars>>
    /\ UNCHANGED clientVars

\* index.js:89-92: the subscription callback, called by the Faye client
\* with one upstream message; it logs and calls broadcastEvent(data).
Deliver(r) ==
    /\ pc = "running"
    /\ subState = "active"
    /\ Len(arrived) < MaxEvents
    /\ broadcastEvent(UpstreamEvent(r))
    /\ arrived' = Append(arrived, UpstreamEvent(r))
    /\ regAt' = Append(regAt, sseClients)
    /\ UNCHANGED <<pings, attachIdx, closeIdx, failedAt>>
    /\ UNCHANGED <<procVars, upstreamVars, registryVars>>
    /\ UNCHANGED clientVars

-----------------------------------------------------------------------------
(* Consumers: index.js:33-53 *)

\* Mutant: the handler also sends the newcomer the last event broadcast.
Attach_ReplaysLast ==
    /\ pc = "running"
    /\ listening
    /\ requests < MaxConsumers
    /\ LET res == requests + 1 IN
        /\ requests' = res
        /\ sseClients' = sseClients \cup {res}
        /\ pingTimers' = pingTimers \cup {res}
        /\ attachIdx' = [attachIdx EXCEPT ![res] = Len(arrived)]
        /\ out' = IF arrived = << >> THEN out
                  ELSE [out EXCEPT ![res] =
                          <<EventLine, DataLine(JSON_stringify(arrived[Len(arrived)]))>>]
    /\ UNCHANGED <<closed, destroyed, arrived, regAt, closeIdx, failedAt, pings>>
    /\ UNCHANGED <<procVars, upstreamVars>>
    /\ UNCHANGED clientVars

\* Mutant: the handler opens a subscription of its own for each consumer.
Attach_Subscribes ==
    /\ pc = "running"
    /\ listening
    /\ requests < MaxConsumers
    /\ LET res == requests + 1 IN
        /\ requests' = res
        /\ sseClients' = sseClients \cup {res}
        /\ pingTimers' = pingTimers \cup {res}
        /\ attachIdx' = [attachIdx EXCEPT ![res] = Len(arrived)]
    /\ subscribeCalls' = subscribeCalls + 1
    /\ UNCHANGED <<clients, subCursor, subState>>
    /\ UNCHANGED <<closed, destroyed, arrived, regAt, closeIdx, failedAt>>
    /\ UNCHANGED <<procVars, streamVars>>
    /\ UNCHANGED clientVars

\* Mutant: the handler registers the response and starts no timer.
Attach_StartsNoTimer ==
    /\ pc = "running"
    /\ listening
    /\ requests < MaxConsumers
    /\ LET res == requests + 1 IN
        /\ requests' = res
        /\ sseClients' = sseClients \cup {res}
        /\ attachIdx' = [attachIdx EXCEPT ![res] = Len(arrived)]
    /\ UNCHANGED <<pingTimers, closed, destroyed, arrived, regAt, closeIdx, failedAt>>
    /\ UNCHANGED <<procVars, upstreamVars, streamVars>>
    /\ UNCHANGED clientVars

\* index.js:33-53: GET /events. The response is added to the registry, its
\* ping timer is started and its close handler is registered.
Attach ==
    /\ pc = "running"
    /\ listening
    /\ requests < MaxConsumers
    /\ LET res == requests + 1 IN
        /\ requests' = res
        /\ sseClients' = sseClients \cup {res}
        /\ pingTimers' = pingTimers \cup {res}
        /\ attachIdx' = [attachIdx EXCEPT ![res] = Len(arrived)]
    /\ UNCHANGED <<closed, destroyed, arrived, regAt, closeIdx, failedAt>>
    /\ UNCHANGED <<procVars, upstreamVars, streamVars>>
    /\ UNCHANGED clientVars

\* Mutant: a tick writes the keep-alive only when nothing was written to the
\* response since its previous tick.
Ping_SkipsAfterTraffic(c) ==
    /\ pc = "running"
    /\ c \in pingTimers
    /\ pings < MaxPings
    /\ pings' = pings + 1
    /\ out' = IF out[c] # << >> /\ out[c][Len(out[c])] # PingFrame
              THEN out
              ELSE Write(out, c, PingFrame)
    /\ UNCHANGED <<procVars, upstreamVars, registryVars, historyVars>>
    /\ UNCHANGED clientVars

\* Mutant: a tick that finds no event frame written since the previous tick
\* ends the idle response.
PingTick_EndsIdle(c, limit) ==
    /\ pc = "running"
    /\ c \in pingTimers
    /\ pings < limit
    /\ pings' = pings + 1
    /\ out' = Write(out, c, PingFrame)
    /\ IF out[c] = << >> \/ out[c][Len(out[c])] = PingFrame
       THEN /\ sseClients' = sseClients \ {c}
            /\ pingTimers' = pingTimers \ {c}
            /\ destroyed' = destroyed \cup {c}
            /\ UNCHANGED <<requests, closed>>
       ELSE UNCHANGED registryVars
    /\ UNCHANGED <<procVars, upstreamVars, historyVars>>
    /\ UNCHANGED clientVars

\* index.js:45-47: one tick of a response's setInterval timer, while fewer
\* than `limit` ticks have fired.
PingTick(c, limit) ==
    /\ pc = "running"
    /\ c \in pingTimers
    /\ pings < limit
    /\ pings' = pings + 1
    /\ out' = Write(out, c, PingFrame)
    /\ UNCHANGED <<procVars, upstreamVars, registryVars, historyVars>>
    /\ UNCHANGED clientVars

\* index.js:45-47: a tick of any response's timer.
Ping(c) == PingTick(c, MaxPings)

\* index.js:50  clearInterval(ping): the running timers without that of
\* response c; clearing a timer that is not running does nothing.
clearInterval(timers, c) == timers \ {c}

\* Mutant: deleting a response that is not in the Set puts it in.
Set_delete_Toggles(set, c) ==
    IF c \in set THEN set \ {c} ELSE set \cup {c}

\* index.js:51  sseClients.delete(res): the Set without response c;
\* deleting what is not in the Set does nothing and returns false.
Set_delete(set, c) == set \ {c}

\* Mutant: the handler deletes the response and forgets clearInterval.
Close_KeepsTimer(c) ==
    /\ pc = "running"
    /\ c \in 1..requests
    /\ c \notin closed
    /\ closed' = closed \cup {c}
    /\ destroyed' = destroyed \cup {c}
    /\ sseClients' = Set_delete(sseClients, c)
    /\ closeIdx' = [closeIdx EXCEPT ![c] = Len(arrived)]
    /\ UNCHANGED <<pingTimers, requests, arrived, regAt, attachIdx, failedAt>>
    /\ UNCHANGED <<procVars, upstreamVars, streamVars>>
    /\ UNCHANGED clientVars

\* Mutant: the handler clears the timer and forgets sseClients.delete.
Close_NoDelete(c) ==
    /\ pc = "running"
    /\ c \in 1..requests
    /\ c \notin closed
    /\ closed' = closed \cup {c}
    /\ destroyed' = destroyed \cup {c}
    /\ pingTimers' = pingTimers \ {c}
    /\ closeIdx' = [closeIdx EXCEPT ![c] = Len(arrived)]
    /\ UNCHANGED <<sseClients, requests, arrived, regAt, attachIdx, failedAt>>
    /\ UNCHANGED <<procVars, upstreamVars, streamVars>>
    /\ UNCHANGED clientVars

\* index.js:49-52: the req "close" handler: clearInterval, delete.
Close(c) ==
    /\ pc = "running"
    /\ c \in 1..requests
    /\ c \notin closed
    /\ closed' = closed \cup {c}
    /\ destroyed' = destroyed \cup {c}
    /\ pingTimers' = clearInterval(pingTimers, c)
    /\ sseClients' = Set_delete(sseClients, c)
    /\ closeIdx' = [closeIdx EXCEPT ![c] = Len(arrived)]
    /\ UNCHANGED <<requests, arrived, regAt, attachIdx, failedAt>>
    /\ UNCHANGED <<procVars, upstreamVars, streamVars>>
    /\ UNCHANGED clientVars

\* The socket of a response breaks (peer reset, network loss). No handler
\* of the server runs yet: Node emits "close" on the request afterwards.
SocketLost(c) ==
    /\ pc = "running"
    /\ c \in 1..requests
    /\ c \notin destroyed
    /\ destroyed' = destroyed \cup {c}
    /\ UNCHANGED <<sseClients, requests, pingTimers, closed>>
    /\ UNCHANGED <<procVars, upstreamVars, streamVars, historyVars>>
    /\ UNCHANGED clientVars

-----------------------------------------------------------------------------

Next ==
    \/ ExitMissingCreds
    \/ StartLogin
    \/ LoginResolved
    \/ LoginRejected
    \/ SubscribeResolved
    \/ SubscribeRejected
    \/ TransportFailure
    \/ \E r \in NextReplayIds : Deliver(r)
    \/ Attach
    \/ \E c \in Res : Ping(c)
    \/ \E c \in Res : Close(c)
    \/ \E c \in Res : SocketLost(c)

Spec == Init /\ [][Next]_vars

\* One consumer on a quiet upstream: the process starts with its
\* credentials set, a single GET /events is served, and its timer may tick
\* IdleTicks times between and behind the few messages of the upstream.
IdleInit ==
    /\ Init
    /\ env = [n \in CredNames |-> "secret"]

IdleNext ==
    \/ StartLogin
    \/ LoginResolved
    \/ SubscribeResolved
    \/ (requests = 0 /\ Attach)
    \/ \E r \in NextReplayIds : Deliver(r)
    \/ PingTick(1, IdleTicks)
    \/ Close(1)
    \/ SocketLost(1)

IdleSpec == IdleInit /\ [][IdleNext]_vars

\* The close handler of a response whose socket is already gone: Node emits
\* "close" on the request once its socket is lost.
CloseAfterLoss(c) == c \in destroyed /\ Close(c)

-----------------------------------------------------------------------------
(* Reading a response's stream *)

\* The data line of each event of the upstream log, by replay position.
FrameOf == [r \in 1..MaxReplayId |-> DataLine(JSON_stringify(UpstreamEvent(r)))]

\* The data line the server writes for an upstream message.
FrameData(evt) == FrameOf[evt.event.replayId]

\* How many chunks of the sequence o equal x.
RECURSIVE Count(_, _)
Count(o, x) ==
    IF o = << >> THEN 0
    ELSE (IF Head(o) = x THEN 1 ELSE 0) + Count(Tail(o), x)

IsDataChunk(ch) == ch # EventLine /\ ch # PingFrame

\* The data lines of a stream, in the order written.
EventData(o) == SelectSeq(o, IsDataChunk)

\* Broadcasts that ran while response c was registered.
BroadcastsSeen(c) == {k \in 1..Len(regAt) : c \in regAt[k]}

\* Responses that have been handed to the GET /events handler.
Attached == 1..requests

-----------------------------------------------------------------------------
(* The page: client/src/App.jsx. JSON.parse *)

\* A JSON value as the page holds it: an object with its members, a string
\* or a number. JSON.parse is modelled for the texts JSON.stringify writes
\* (objects, strings, integers, no white space); any other text is
\* rejected, as JSON.parse rejects a truncated or non-JSON text.
JsObject(m) == [kind |-> "object", members |-> m]
JsString(s) == [kind |-> "string", text |-> s]
JsNumber(n) == [kind |-> "number", num |-> n]
JsUndefined == [kind |-> "undefined"]

\* The outcome of a parsing step: a SyntaxError, or a value and the text
\* left behind it.
SyntaxError == [ok |-> FALSE]
Parsed(v, rest) == [ok |-> TRUE, value |-> v, rest |-> rest]

DigitValue(ch) ==
    CASE ch = "0" -> 0 [] ch = "1" -> 1 [] ch = "2" -> 2 [] ch = "3" -> 3
      [] ch = "4" -> 4 [] ch = "5" -> 5 [] ch = "6" -> 6 [] ch = "7" -> 7
      [] ch = "8" -> 8 [] ch = "9" -> 9 [] OTHER -> -1

\* Digits of an integer, most significant first; n is the value so far.
RECURSIVE ParseDigits(_, _)
ParseDigits(t, n) ==
    IF t # "" /\ DigitValue(Head(t)) >= 0
    THEN ParseDigits(Tail(t), 10 * n + DigitValue(Head(t)))
    ELSE Parsed(JsNumber(n), t)

ParseNumber(t) ==
    IF t # "" /\ Head(t) = "-"
    THEN IF Len(t) >= 2 /\ DigitValue(SubSeq(t, 2, 2)) >= 0
         THEN LET p == ParseDigits(Tail(t), 0)
              IN  Parsed(JsNumber(0 - p.value.num), p.rest)
         ELSE SyntaxError
    ELSE IF t # "" /\ DigitValue(Head(t)) >= 0
         THEN ParseDigits(t, 0)
         ELSE SyntaxError

\* The inside of a string literal, behind its opening quote; acc is the
\* text decoded so far.
RECURSIVE ParseChars(_, _)
ParseChars(t, acc) ==
    IF t = "" THEN SyntaxError
    ELSE LET ch == Head(t) IN
         CASE ch = "\"" -> Parsed(acc, Tail(t))
           [] ch = "\n" -> SyntaxError
           [] ch = "\\" ->
                IF Len(t) < 2 THEN SyntaxError
                ELSE LET e    == SubSeq(t, 2, 2)
                         rest == SubSeq(t, 3, Len(t))
                     IN  CASE e = "\"" -> ParseChars(rest, acc \o "\"")
                           [] e = "\\" -> ParseChars(rest, acc \o "\\")
                           [] e = "n"  -> ParseChars(rest, acc \o "\n")
                           [] OTHER    -> SyntaxError
           [] OTHER -> ParseChars(Tail(t), acc \o ch)

\* An object with one more member; a repeated key keeps the later value.
PutMember(m, k, v) == [x \in (DOMAIN m) \cup {k} |-> IF x = k THEN v ELSE m[x]]

RECURSIVE ParseValue(_)
RECURSIVE ParseMembers(_, _)

\* The members of an object from the quote of a key on; m holds the
\* members read so far.
ParseMembers(t, m) ==
    IF t = "" \/ Head(t) # "\"" THEN SyntaxError
    ELSE LET k == ParseChars(Tail(t), "") IN
         IF ~k.ok \/ k.rest = "" \/ Head(k.rest) # ":" THEN SyntaxError
         ELSE LET v == ParseValue(Tail(k.rest)) IN
              IF ~v.ok \/ v.rest = "" THEN SyntaxError
              ELSE LET m2 == PutMember(m, k.value, v.value) IN
                   CASE Head(v.rest) = "," -> ParseMembers(Tail(v.rest), m2)
                     [] Head(v.rest) = "}" -> Parsed(JsObject(m2), Tail(v.rest))
                     [] OTHER              -> SyntaxError

ParseValue(t) ==
    IF t = "" THEN SyntaxError
    ELSE CASE Head(t) = "{" ->
                IF Len(t) >= 2 /\ SubSeq(t, 2, 2) = "}"
                THEN Parsed(JsObject(<< >>), SubSeq(t, 3, Len(t)))
                ELSE ParseMembers(Tail(t), << >>)
           [] Head(t) = "\"" ->
                LET s == ParseChars(Tail(t), "")
                IN  IF s.ok THEN Parsed(JsString(s.value), s.rest) ELSE SyntaxError
           [] OTHER -> ParseNumber(t)

\* App.jsx:19  JSON.parse(e.data): the value, or a SyntaxError when the
\* text is not one JSON value from its first character to its last.
JSON_parse(text) ==
    LET p == ParseValue(text)
    IN  IF p.ok /\ p.rest = "" THEN [ok |-> TRUE, value |-> p.value] ELSE SyntaxError

\* The value JSON.parse builds for a message of the upstream.
AsJson(evt) ==
    JsObject([ schema  |-> JsString(evt.schema),
               payload |-> JsString(evt.payload),
               event   |-> JsObject([replayId |-> JsNumber(evt.event.replayId)]) ])

-----------------------------------------------------------------------------
(* The page: EventSource and the platformEvent listener *)

\* Position of the first line feed of a text from i on, 0 when there is
\* none.
RECURSIVE LineEnd(_, _)
LineEnd(text, i) ==
    IF i > Len(text) THEN 0
    ELSE IF SubSeq(text, i, i) = "\n" THEN i ELSE LineEnd(text, i + 1)

\* The lines of a text, each without its line feed. An unterminated last
\* line stays in the EventSource's buffer and is not returned.
RECURSIVE SplitLines(_)
SplitLines(text) ==
    LET k == LineEnd(text, 1) IN
    IF k = 0 THEN << >>
    ELSE <<SubSeq(text, 1, k - 1)>> \o SplitLines(SubSeq(text, k + 1, Len(text)))

\* Position of the first colon of a line from i on, 0 when there is none.
RECURSIVE ColonAt(_, _)
ColonAt(line, i) ==
    IF i > Len(line) THEN 0
    ELSE IF SubSeq(line, i, i) = ":" THEN i ELSE ColonAt(line, i + 1)

\* Field name and value of a line of an event stream: the name is what
\* stands before the first colon, the value what stands behind it less one
\* leading space.
Field(line) ==
    LET k == ColonAt(line, 1) IN
    IF k = 0 THEN [name |-> line, value |-> ""]
    ELSE LET v == SubSeq(line, k + 1, Len(line))
         IN  [ name  |-> SubSeq(line, 1, k - 1),
               value |-> IF v # "" /\ Head(v) = " " THEN Tail(v) ELSE v ]

\* The data buffer of an event: its data lines joined by line feeds.
RECURSIVE JoinData(_)
JoinData(ds) ==
    IF Len(ds) = 1 THEN ds[1] ELSE ds[1] \o "\n" \o JoinData(Tail(ds))

\* App.jsx:11  new EventSource(url): what the browser does with the lines
\* of a stream, from the event type and the data buffer it holds: the
\* events it dispatches, and the type and the buffer it is left with. A
\* line that starts with a colon is a comment; an "event" line names the
\* type and "data" lines fill the data buffer; an empty line dispatches the
\* event if the buffer holds anything and resets both.
RECURSIVE Dispatch(_, _, _)
Dispatch(lines, type, data) ==
    IF lines = << >> THEN [events |-> << >>, type |-> type, data |-> data]
    ELSE LET l    == Head(lines)
             rest == Tail(lines)
         IN  IF l = ""
             THEN IF data = << >>
                  THEN Dispatch(rest, "", << >>)
                  ELSE LET e == [ type |-> IF type = "" THEN "message" ELSE type,
                                  data |-> JoinData(data) ]
                           r == Dispatch(rest, "", << >>)
                       IN  [r EXCEPT !.events = <<e>> \o @]
             ELSE IF Head(l) = ":"
                  THEN Dispatch(rest, type, data)
                  ELSE LET f == Field(l) IN
                       CASE f.name = "event" -> Dispatch(rest, f.value, data)
                         [] f.name = "data"  -> Dispatch(rest, type, Append(data, f.value))
                         [] OTHER            -> Dispatch(rest, type, data)

\* The e.data of the events of a stream text that reach the listener
\* registered with addEventListener("platformEvent", ...), in order.
IsPlatformEvent(e) == e.type = "platformEvent"
ListenerCalls(text) ==
    LET es == SelectSeq(Dispatch(SplitLines(text), "", << >>).events, IsPlatformEvent)
    IN  [i \in 1..Len(es) |-> es[i].data]

\* App.jsx:35  .slice(0, 200)
KeepLast == 200
Slice(list, n) == SubSeq(list, 1, IF Len(list) < n THEN Len(list) ELSE n)

\* Optional chaining: v?.key
Member(v, key) ==
    IF v.kind = "object" /\ key \in DOMAIN v.members THEN v.members[key]
    ELSE JsUndefined

\* Nullish coalescing: a ?? b
Coalesce(a, b) == IF a.kind = "undefined" THEN b ELSE a

\* App.jsx:25  crypto.randomUUID(): a key no entry of the list carries.
\* UUIDs are opaque to the page, so the k-th spare one is taken.
Uuid(k) == [kind |-> "uuid", n |-> k]
randomUUID(prev) ==
    LET used  == {k \in 1..(Len(prev) + 1) : \E i \in 1..Len(prev) : prev[i].id = Uuid(k)}
        spare == (1..(Len(prev) + 1)) \ used
    IN  Uuid(CHOOSE k \in spare : \A j \in spare : k <= j)

\* App.jsx:21-33: the entry built for a parsed message.
Entry(message, prev) ==
    LET payload == Coalesce(Member(Member(message, "data"), "payload"),
                            Coalesce(Member(message, "payload"), message))
        evtMeta == Coalesce(Member(Member(message, "data"), "event"), JsObject(<< >>))
    IN  [ id      |-> Coalesce(Member(evtMeta, "replayId"), randomUUID(prev)),
          payload |-> payload,
          meta    |-> [ createdDate |-> Member(evtMeta, "createdDate"),
                        type        |-> Member(message, "channel"),
                        schema      |-> Member(Member(message, "data"), "schema") ],
          raw     |-> message ]

\* Mutant: the list is never cut.
setEvents_NoSlice(prev, parsed) ==
    IF parsed.ok
    THEN <<Entry(parsed.value, prev)>> \o prev
    ELSE prev

\* Mutant: a frame that does not parse empties the list.
setEvents_ResetsOnError(prev, parsed) ==
    IF parsed.ok
    THEN Slice(<<Entry(parsed.value, prev)>> \o prev, KeepLast)
    ELSE << >>

\* App.jsx:17-39: the list after the listener ran for a frame whose data
\* parsed to `parsed`: the new entry first, the list cut to 200; a
\* SyntaxError is caught and logged, the list stays.
setEvents(prev, parsed) ==
    IF parsed.ok
    THEN Slice(<<Entry(parsed.value, prev)>> \o prev, KeepLast)
    ELSE prev

\* The list after the listener ran for each data text of ds in turn.
RECURSIVE AfterFrames(_, _)
AfterFrames(prev, ds) ==
    IF ds = << >> THEN prev
    ELSE AfterFrames(setEvents(prev, JSON_parse(Head(ds))), Tail(ds))

-----------------------------------------------------------------------------
(* The page as a process of its own: one EventSource, one list *)

\* Data texts that are not JSON: what `data: ${JSON.stringify(undefined)}`
\* puts on the wire, and an object cut short.
BadData == {"undefined", "{\"schema\":\"S\",\"payload\":"}

\* What may come over the wire next, as whole frames: the frame of the next
\* message of the upstream, a keep-alive, or a platformEvent frame with
\* unparsable data.
NextMessage == UpstreamEvent(Len(received) + 1)
EventFrame(d) == EventLine \o DataLine(d)

\* App.jsx:14  source.onopen
onopen ==
    /\ connected' = TRUE
    /\ UNCHANGED <<events, received, badFrames, recovered>>
    /\ UNCHANGED serverVars

\* App.jsx:15  source.onerror
onerror ==
    /\ connected' = FALSE
    /\ UNCHANGED <<events, received, badFrames, recovered>>
    /\ UNCHANGED serverVars

\* App.jsx:11-39: the EventSource reads one frame off the wire and calls
\* the platformEvent listener for what it dispatches.
Receive(text) ==
    LET ds == ListenerCalls(text) IN
    /\ events' = AfterFrames(events, ds)
    /\ received' = received \o
          [i \in 1..Len(SelectSeq(ds, LAMBDA d : JSON_parse(d).ok)) |->
              JSON_parse(SelectSeq(ds, LAMBDA d : JSON_parse(d).ok)[i]).value]
    /\ badFrames' = badFrames + Len(SelectSeq(ds, LAMBDA d : ~JSON_parse(d).ok))
    /\ recovered' = (recovered \/ (badFrames > 0 /\ events' # events))
    /\ UNCHANGED connected
    /\ UNCHANGED serverVars

ReceiveEvent ==
    /\ Len(received) < MaxFrames
    /\ Receive(EventFrame(JSON_stringify(NextMessage)))

ReceivePing == Receive(PingFrame)

ReceiveBad ==
    /\ badFrames < MaxBadFrames
    /\ \E d \in BadData : Receive(EventFrame(d))

\* App.jsx:70  onClick={() => setEvents([])}
Clear ==
    /\ events' = << >>
    /\ received' = << >>
    /\ badFrames' = 0
    /\ recovered' = FALSE
    /\ UNCHANGED connected
    /\ UNCHANGED serverVars

ClientInit ==
    /\ Init
    /\ env = [n \in CredNames |-> "secret"]

ClientNext ==
    \/ onopen
    \/ onerror
    \/ ReceiveEvent
    \/ ReceivePing
    \/ ReceiveBad
    \/ Clear

ClientSpec == ClientInit /\ [][ClientNext]_vars

-----------------------------------------------------------------------------
(* Fan-out *)

\* C1: every upstream delivery is written exactly once, as one platformEvent
\* frame, to each response that is in sseClients when broadcastEvent runs for
\* it, and to no other: per response and per event content, the number of
\* data lines equals the number of deliveries of that content made while the
\* response was registered, with one event line per data line.
C1_ExactlyOnce ==
    \A c \in Res :
        /\ Count(out[c], EventLine) = Cardinality(BroadcastsSeen(c))
        /\ Len(EventData(out[c])) = Cardinality(BroadcastsSeen(c))
        /\ \A r \in 1..MaxReplayId :
              Count(out[c], FrameData(UpstreamEvent(r)))
                = Cardinality({k \in BroadcastsSeen(c) : arrived[k] = UpstreamEvent(r)})

\* A response registered for two broadcasts next to one that saw only the
\* second of them.
C1_Witness ==
    /\ Len(arrived) >= 2
    /\ \E c, d \in Res :
          /\ c \in regAt[1] /\ c \in regAt[2]
          /\ d \notin regAt[1] /\ d \in regAt[2]
          /\ Len(EventData(out[c])) = 2

\* C2: the data lines written to a response are, in order, those of the
\* upstream deliveries made between its attach and its close (or now): a
\* contiguous segment of the arrival sequence, nothing missing, nothing
\* reordered.
C2_OrderedContiguous ==
    \A c \in Attached :
        LET from == attachIdx[c]
            to   == IF c \in closed THEN closeIdx[c] ELSE Len(arrived)
        IN  /\ 0 <= from /\ from <= to
            /\ EventData(out[c]) = [k \in 1..(to - from) |-> FrameData(arrived[from + k])]

\* Two different events arrived; one response was registered for both and
\* holds them in arrival order, another attached between them and was closed
\* after the second.
C2_Witness ==
    /\ Len(arrived) >= 2
    /\ arrived[1] # arrived[2]
    /\ \E c \in Attached, d \in closed :
          /\ attachIdx[c] = 0
          /\ EventData(out[c]) = <<FrameData(arrived[1]), FrameData(arrived[2])>>
          /\ attachIdx[d] = 1 /\ closeIdx[d] = 2
          /\ EventData(out[d]) = <<FrameData(arrived[2])>>

\* C3: no backlog. A response gets no frame for a delivery broadcast before
\* it attached: it holds at most one frame per delivery made since its
\* attach, a response never attached holds nothing, and deliveries broadcast
\* to an empty registry leave no frame anywhere.
C3_NoBacklog ==
    /\ \A c \in Res :
          IF c \in Attached
          THEN Len(EventData(out[c])) <= Len(arrived) - attachIdx[c]
          ELSE out[c] = << >>
    /\ (\A k \in 1..Len(regAt) : regAt[k] = {})
          => \A c \in Res : EventData(out[c]) = << >>

\* Deliveries were broadcast to an empty registry, then a response attached
\* and the upstream stayed silent.
C3_Witness ==
    /\ Len(arrived) >= 2
    /\ \A k \in 1..Len(regAt) : regAt[k] = {}
    /\ \E c \in sseClients : attachIdx[c] = Len(arrived) /\ EventData(out[c]) = << >>

\* C4: a response whose close handler has run is not in sseClients, and no
\* broadcast made after its close found it registered.
C4_ClosedNotRegistered ==
    /\ closed \cap sseClients = {}
    /\ \A c \in closed : \A k \in 1..Len(regAt) : k > closeIdx[c] => c \notin regAt[k]

\* A closed response, another still registered, and a broadcast since.
C4_Witness ==
    \E c \in closed :
        /\ sseClients # {}
        /\ Len(arrived) > closeIdx[c]

\* C5: at most one Faye client and one subscription exist, and a step that
\* attaches or closes a consumer leaves the upstream side untouched.
C5_SingleUpstream ==
    /\ [](clients <= 1 /\ subscribeCalls <= 1)
    /\ [][(requests' # requests \/ sseClients' # sseClients \/ closed' # closed)
            => UNCHANGED upstreamVars]_vars

\* Two consumers were attached and one of them closed under the single
\* subscription.
C5_Witness ==
    /\ requests = 2
    /\ closed # {}
    /\ sseClients # {}
    /\ clients = 1 /\ subscribeCalls = 1 /\ subState = "active"

-----------------------------------------------------------------------------
(* Slow and failing consumers *)

\* A step in which the subscription callback ran broadcastEvent.
BroadcastStep == arrived' # arrived

\* C6 as stated: a consumer that reads nothing is evicted once its queue is
\* full, so no response ever holds more than QueueCapacity undrained chunks.
C6_Original ==
    \A c \in Res : Buffered(c) <= QueueCapacity

\* C6 as the code has it: nothing is evicted and nothing is bounded. A
\* broadcast changes no registry membership and adds the two chunks of the
\* frame to every registered response; a response leaves the registry only
\* in the step its close handler runs; what is held for a response whose
\* peer reads nothing is every chunk written since it attached, two per
\* delivery plus its pings; the other responses get every event.
C6_NoEviction ==
    /\ [][BroadcastStep =>
            /\ sseClients' = sseClients
            /\ \A c \in sseClients : Len(out'[c]) = Len(out[c]) + 2]_vars
    /\ [][\A c \in sseClients : c \notin sseClients' => c \in closed' \ closed]_vars
    /\ [](\A c \in sseClients :
            ~WriteFails(c) =>
               Buffered(c) = 2 * (Len(arrived) - attachIdx[c]) + Count(out[c], PingFrame))

\* A registered response holds more than QueueCapacity chunks next to
\* another registered response that got the same events.
C6_Witness ==
    \E c, d \in sseClients :
        /\ c # d
        /\ ~WriteFails(c)
        /\ Buffered(c) > QueueCapacity
        /\ EventData(out[d]) = EventData(out[c])
        /\ Len(EventData(out[d])) = 2

-----------------------------------------------------------------------------
(* Upstream failures and startup *)

\* C8 as stated: after a transport failure the broker subscribes again from
\* the position of the last event it delivered.
C8_Original ==
    (failedAt >= 1) => subCursor = arrived[failedAt].event.replayId

\* C8 as the code has it: the failure handler only logs. While the process
\* runs there is the one client and the one subscription made at startup,
\* with the fixed replay id -1, before and after any failure: no position is
\* kept. Whatever the upstream delivers, before or after a failure, goes in
\* arrival order and once per delivery to a consumer attached throughout.
C8_CursorFixed ==
    /\ pc = "running" => (subCursor = -1 /\ subscribeCalls = 1 /\ clients = 1)
    /\ \A c \in sseClients :
          attachIdx[c] = 0 =>
             EventData(out[c]) = [k \in 1..Len(arrived) |-> FrameData(arrived[k])]

\* A failure after the first delivery, a delivery after it, and a consumer
\* attached from the start holding both.
C8_Witness ==
    /\ failedAt >= 1
    /\ Len(arrived) > failedAt
    /\ \E c \in sseClients : attachIdx[c] = 0 /\ Len(EventData(out[c])) = Len(arrived)

\* A required credential is absent from the environment, or empty.
CredentialMissing == \E n \in CredNames : env[n] \in {Undefined, ""}

\* C9: with a credential missing the process never gets past the check: no
\* login, no client, no subscription, no listen, no consumer.
C9_MissingCredsExit ==
    CredentialMissing =>
        /\ pc \in {"load", "exited"}
        /\ pc = "exited" => exitCode = 1
        /\ loginCalls = 0 /\ clients = 0 /\ subscribeCalls = 0
        /\ ~listening
        /\ requests = 0 /\ sseClients = {}

\* The process has exited with only SF_TOKEN missing.
C9_Witness ==
    /\ pc = "exited"
    /\ exitCode = 1
    /\ ~Falsy(env["SF_USERNAME"]) /\ ~Falsy(env["SF_PASSWORD"])
    /\ env["SF_TOKEN"] = Undefined

\* C10 as stated: only a missing credential ends the process.
C10_Original ==
    pc = "exited" => CredentialMissing

\* C10 as the code has it: the process ends on a missing credential or on a
\* rejected login, always before it listens or subscribes; nothing is tried
\* twice; and once start() has run to its end (subscribed, listening) no
\* failure ends the process, whether the subscription was rejected or the
\* transport failed.
C10_ExitOnlyBeforeListen ==
    /\ pc = "exited" =>
          /\ exitCode = 1
          /\ ~listening /\ subscribeCalls = 0 /\ clients = 0
          /\ CredentialMissing \/ loginCalls = 1
    /\ loginCalls <= 1 /\ subscribeCalls <= 1
    /\ (listening \/ subState # "none" \/ failedAt >= 0) => pc = "running"

\* The subscription was rejected and the transport failed, and the process
\* still serves a consumer.
C10_Witness ==
    /\ subState = "rejected"
    /\ failedAt >= 0
    /\ pc = "running"
    /\ sseClients # {}

-----------------------------------------------------------------------------
(* Keep-alive *)

\* A step in which one tick of a ping timer ran.
TickStep == pings' # pings

\* The last chunk written to response c is the data line of an event frame:
\* an event was sent to it and no keep-alive has been written since.
TrafficSinceTick(c) ==
    out[c] # << >> /\ IsDataChunk(out[c][Len(out[c])])

\* C11 as stated: a tick writes the keep-alive only to a response that got
\* no event frame since its previous tick; a tick that follows an event
\* frame writes nothing.
C11_Original ==
    [][\A c \in Res : (TickStep /\ TrafficSinceTick(c)) => out'[c] = out[c]]_vars

\* C11 as the code has it: every tick writes the keep-alive, whether or not
\* an event frame went to the response since its previous tick. A tick step
\* appends exactly one ":ping" chunk to one response with a running timer
\* and leaves every other stream as it was.
C11_PingEveryTick ==
    [][TickStep =>
          \E c \in pingTimers :
              /\ out'[c] = Append(out[c], PingFrame)
              /\ \A d \in Res \ {c} : out'[d] = out[d]]_vars

\* A keep-alive written directly behind an event frame.
C11_Witness ==
    \E c \in Res :
        /\ Len(out[c]) = 3
        /\ out[c][1] = EventLine
        /\ IsDataChunk(out[c][2])
        /\ out[c][3] = PingFrame

\* The chunks the server can write. Every chunk is a whole number of lines
\* and leaves the data buffer of the EventSource empty, so a stream is read
\* chunk by chunk from the event type the chunk before left behind.
ServerChunks == {EventLine, PingFrame} \cup {FrameOf[r] : r \in 1..MaxReplayId}
ChunkDispatch ==
    [t \in {"", "platformEvent"}, ch \in ServerChunks |-> Dispatch(SplitLines(ch), t, << >>)]

\* JSON.parse of each data text the server can write.
WireData == {JSON_stringify(UpstreamEvent(r)) : r \in 1..MaxReplayId}
ParsedData == [d \in WireData |-> JSON_parse(d)]

\* The value JSON.parse builds for each message of the upstream log.
MessageOf == [r \in 1..MaxReplayId |-> AsJson(UpstreamEvent(r))]

\* The list of a page after its EventSource, holding event type t, read
\* the chunks of o.
RECURSIVE PageAfter(_, _, _)
PageAfter(prev, t, o) ==
    IF o = << >> THEN prev
    ELSE LET r  == ChunkDispatch[t, Head(o)]
             es == SelectSeq(r.events, IsPlatformEvent)
         IN  PageAfter(IF es = << >> THEN prev
                       ELSE setEvents(prev, ParsedData[es[1].data]),
                       r.type, Tail(o))

\* The list of a page that opened its EventSource when response c was
\* registered and has read all that was written to it.
PageList(c) == PageAfter(<< >>, "", out[c])

\* C12: keep-alives are no application events and idleness ends nothing.
\* Whatever the interleaving of ":ping" chunks and event frames on a
\* response's stream, the list of the page reading it has one entry per
\* event frame written, newest first, each carrying the message of that
\* frame, and nothing for a ping. A tick changes no registry membership,
\* closes and destroys nothing; a response is out of the registry only once
\* its own close handler has run.
C12_PingsNotEvents ==
    /\ [](\A c \in Res :
            LET list == PageList(c)
                n    == Len(EventData(out[c]))
            IN  /\ Len(list) = n
                /\ Len(list) = Count(out[c], EventLine)
                /\ \A i \in 1..n :
                      list[i].raw = MessageOf[arrived[attachIdx[c] + n + 1 - i].event.replayId])
    /\ [][TickStep => UNCHANGED registryVars]_vars
    /\ [](sseClients = Attached \ closed)

\* The response got a keep-alive between two event frames and three more
\* behind them with no event in between; its page lists the two events,
\* newest first, and it is still registered with its socket open.
C12_Witness ==
    /\ 1 \in sseClients /\ 1 \notin destroyed
    /\ Len(out[1]) = 8
    /\ out[1][3] = PingFrame
    /\ SubSeq(out[1], 6, 8) = <<PingFrame, PingFrame, PingFrame>>
    /\ Len(PageList(1)) = 2
    /\ PageList(1)[1].raw = AsJson(arrived[2])
    /\ PageList(1)[2].raw = AsJson(arrived[1])

-----------------------------------------------------------------------------
(* Upstream failure seen from the consumers *)

\* A step in which the transport:failure handler ran.
FailureStep == failedAt' # failedAt

\* C13: an upstream transport failure is not surfaced. The step of the
\* failure handler writes no chunk to any response, changes no registry
\* membership, stops no timer and closes or destroys no response; and after
\* a failure the timer of every registered response can still tick.
C13_FailureNotSurfaced ==
    /\ [][FailureStep =>
            /\ out' = out
            /\ UNCHANGED <<sseClients, requests, pingTimers, closed, destroyed>>]_vars
    /\ [](failedAt >= 0 /\ pings < MaxPings =>
             \A c \in sseClients : ENABLED Ping(c))

\* The transport failed after the last delivery; a registered response with
\* its socket open holds the frames of the deliveries before the failure and
\* a keep-alive, and nothing else.
C13_Witness ==
    /\ failedAt >= 1
    /\ failedAt = Len(arrived)
    /\ \E c \in sseClients :
          /\ ~WriteFails(c)
          /\ attachIdx[c] = 0
          /\ Len(out[c]) = 2 * failedAt + 1
          /\ out[c][Len(out[c])] = PingFrame

-----------------------------------------------------------------------------
(* Detach *)

-----------------------------------------------------------------------------
(* Redelivery *)

\* The message a page decodes from a data chunk of the server.
Decoded(chunk) ==
    ParsedData[ChunkDispatch["platformEvent", chunk].events[1].data].value

\* C15: no deduplication, no filtering. Every delivery of the upstream ran
\* exactly one broadcast; a response holds one data line per delivery made
\* between its attach and its close, each decoding to the message
\* delivered, and where the upstream delivered the same replay id twice in
\* a row the response holds the same data line twice.
C15_NoDedup ==
    /\ Len(regAt) = Len(arrived)
    /\ \A c \in Attached :
          LET from == attachIdx[c]
              to   == IF c \in closed THEN closeIdx[c] ELSE Len(arrived)
              data == EventData(out[c])
          IN  /\ Len(data) = to - from
              /\ \A k \in (from + 1)..to :
                    /\ Decoded(data[k - from]) = MessageOf[arrived[k].event.replayId]
                    /\ (k < to /\ arrived[k + 1].event.replayId = arrived[k].event.replayId)
                          => data[k + 1 - from] = data[k - from]

\* The upstream delivered replay id 1 twice; a response registered
\* throughout holds its frame twice, a response attached in between once.
C15_Witness ==
    /\ Len(arrived) = 2
    /\ arrived[1].event.replayId = 1 /\ arrived[2].event.replayId = 1
    /\ \E c, d \in sseClients :
          /\ attachIdx[c] = 0
          /\ out[c] = <<EventLine, FrameOf[1], EventLine, FrameOf[1]>>
          /\ attachIdx[d] = 1
          /\ out[d] = <<EventLine, FrameOf[1]>>

-----------------------------------------------------------------------------
(* After the close handler *)

\* A step in which the close handler of some response ran.
CloseStep == closed' # closed

\* C16: nothing is written to a response once its close handler has run,
\* neither an event frame nor a keep-alive; and the step of a close handler
\* writes nothing, leaves the upstream side as it is and takes no other
\* response out of the registry or off its timer.
C16_NothingAfterClose ==
    /\ [][\A c \in closed : out'[c] = out[c]]_vars
    /\ [][CloseStep =>
            /\ out' = out
            /\ UNCHANGED upstreamVars
            /\ \A d \in Res \ (closed' \ closed) :
                  /\ (d \in sseClients') = (d \in sseClients)
                  /\ (d \in pingTimers') = (d \in pingTimers)]_vars

\* A response was closed holding one frame; since then an event was
\* broadcast and a tick ran, both written to another response only.
C16_Witness ==
    \E c \in closed, d \in sseClients :
        /\ closeIdx[c] < Len(arrived)
        /\ out[c] = <<EventLine, FrameData(arrived[1])>>
        /\ Len(EventData(out[d])) = Len(arrived) - attachIdx[d]
        /\ Len(EventData(out[d])) >= 1
        /\ Count(out[d], PingFrame) = 1
        /\ out[d][Len(out[d])] = PingFrame
        /\ subState = "active"

-----------------------------------------------------------------------------
(* Timers *)

\* C17: the responses with a running ping timer are exactly the registered
\* ones. Each request served is either registered with its timer running or
\* closed, never both and never neither.
C17_TimersMatchRegistry ==
    /\ pingTimers = sseClients
    /\ sseClients \subseteq Attached
    /\ Cardinality(sseClients) + Cardinality(closed) = requests

\* Every request the bounds allow was served; one response is closed, the
\* others are registered with their timers running.
C17_Witness ==
    /\ requests = MaxConsumers
    /\ Cardinality(closed) = 1
    /\ pingTimers # {}
    /\ pingTimers = Attached \ closed

-----------------------------------------------------------------------------
(* Framing *)

\* C18: event frames are atomic on every stream. Between handlers, each
\* event line is directly followed by a data line and each data line
\* directly preceded by an event line, so no keep-alive and no chunk of
\* another event stands inside a frame and no frame is half written when a
\* tick, an attach, a close or the next broadcast runs.
C18_FramesAtomic ==
    \A c \in Res :
        \A i \in 1..Len(out[c]) :
            /\ out[c][i] = EventLine =>
                  (i < Len(out[c]) /\ IsDataChunk(out[c][i + 1]))
            /\ IsDataChunk(out[c][i]) =>
                  (i > 1 /\ out[c][i - 1] = EventLine)

\* A keep-alive stands between the frames of two different events on one
\* stream, and another response attached in between holds the second frame
\* only.
C18_Witness ==
    /\ Len(arrived) = 2
    /\ arrived[1] # arrived[2]
    /\ \E c, d \in Res :
          /\ out[c] = <<EventLine, FrameData(arrived[1]), PingFrame,
                        EventLine, FrameData(arrived[2])>>
          /\ out[d] = <<EventLine, FrameData(arrived[2])>>

-----------------------------------------------------------------------------
(* The page's list *)

\* C19: the list holds at most 200 entries, newest first: it is the last
\* min(200, n) of the n messages the page parsed since the last Clear, the
\* latest at its head; right after a Clear, n is 0 and the list is empty.
C19_NewestFirstCapped ==
    LET n == Len(received) IN
    /\ Len(events) <= KeepLast
    /\ Len(events) = (IF n < KeepLast THEN n ELSE KeepLast)
    /\ \A i \in 1..Len(events) : events[i].raw = received[n + 1 - i]

\* The page has parsed one message more than the list keeps: the latest is
\* at the head, the first one is gone.
C19_Witness ==
    /\ Len(received) = KeepLast + 1
    /\ Len(events) = KeepLast
    /\ events[1].raw = AsJson(UpstreamEvent(KeepLast + 1))
    /\ events[KeepLast].raw = AsJson(UpstreamEvent(2))

\* A step in which the listener got a frame that JSON.parse rejects, and a
\* step in which it got one that parses.
BadFrameStep == badFrames' > badFrames
GoodFrameStep == Len(received') > Len(received)

\* C20: a frame whose data is not JSON changes nothing and stops nothing.
\* The step of the listener for such a frame leaves the list and the
\* connected flag as they are; and a frame that parses is put at the head
\* of the list, above what the list held, whether or not unparsable frames
\* came before it.
C20_BadFrameIgnored ==
    /\ [][BadFrameStep => (events' = events /\ connected' = connected)]_vars
    /\ [][GoodFrameStep =>
            /\ events'[1].raw = received'[Len(received')]
            /\ Tail(events') = Slice(events, KeepLast - 1)
            /\ connected' = connected]_vars

\* With the page connected and one entry listed, an unparsable frame came
\* and then a frame that parsed: the list holds both entries, the new one
\* first.
C20_Witness ==
    /\ connected
    /\ badFrames >= 1
    /\ recovered
    /\ Len(events) = 2
    /\ events[1].raw = AsJson(UpstreamEvent(2))
    /\ events[2].raw = AsJson(UpstreamEvent(1))

====
